---- MODULE Spec2Model ----
(***************************************************************************)
(* Model of the report consolidator: concatenation of uploaded tables,     *)
(* column normalization and KPI derivation (metrics_calculator.py), the    *)
(* platform summary and its insights, and the per-platform statistics and *)
(* cross-platform comparison (statistics_analyzer.py).                     *)
(*                                                                         *)
(* Representation.  A column name is a sequence of one-character strings,  *)
(* so that lower(), strip() and the substring test of the alias loop are   *)
(* computed, not assumed.  A table is [columns, rows]: columns is the      *)
(* sequence of labels (labels may repeat, as in a pandas frame), and each  *)
(* row is a sequence of cells aligned with columns.  A cell is a natural   *)
(* number, or NaN (the pandas missing marker), or Inf (float infinity).    *)
(* Platform and campaign cells are naturals used as keys.  KPI cells hold  *)
(* the value in hundredths (5.00 is 500); percentages of spend are held in *)
(* tenths.  Arithmetic is exact: binary floating point error is outside    *)
(* the model.                                                              *)
(***************************************************************************)
EXTENDS Integers, Sequences, FiniteSets, TLC

VARIABLES pc, uploaded, consolidated, metrics, summary, insights, statistics, comparison,
          header, columns, firstPass, passes

vars == <<pc, uploaded, consolidated, metrics, summary, insights, statistics, comparison,
          header, columns, firstPass, passes>>

pipelineVars == <<pc, uploaded, consolidated, metrics, summary, insights, statistics,
                  comparison>>

normVars == <<header, columns, firstPass, passes>>

-----------------------------------------------------------------------------
(* Cell markers *)

\* np.nan: the missing value marker
NaN == -1
\* np.inf: the result of a float division x / 0 with x > 0
Inf == -2

IsNum(v) == v >= 0

-----------------------------------------------------------------------------
(* Column names *)

Uppers == <<"A","B","C","D","E","F","G","H","I","J","K","L","M",
            "N","O","P","Q","R","S","T","U","V","W","X","Y","Z">>
Lowers == <<"a","b","c","d","e","f","g","h","i","j","k","l","m",
            "n","o","p","q","r","s","t","u","v","w","x","y","z">>

Whitespace == {" ", "\t"}

Impressions == <<"i","m","p","r","e","s","s","i","o","n","s">>
Clicks      == <<"c","l","i","c","k","s">>
Spend       == <<"s","p","e","n","d">>
Conversions == <<"c","o","n","v","e","r","s","i","o","n","s">>
Revenue     == <<"r","e","v","e","n","u","e">>
Platform    == <<"p","l","a","t","f","o","r","m">>
Campaign    == <<"c","a","m","p","a","i","g","n">>

Ctr            == <<"c","t","r">>
Cpc            == <<"c","p","c">>
Cpm            == <<"c","p","m">>
Cpa            == <<"c","p","a">>
ConversionRate == <<"c","o","n","v","e","r","s","i","o","n","_","r","a","t","e">>
Roas           == <<"r","o","a","s">>

Cost    == <<"c","o","s","t">>
Amount  == <<"a","m","o","u","n","t">>
Impress == <<"i","m","p","r","e","s","s">>
Views   == <<"v","i","e","w","s">>
Conv    == <<"c","o","n","v">>
Sales   == <<"s","a","l","e","s">>

\* the dict of old -> new pairs, in insertion order
column_mapping ==
    << <<Cost, Spend>>, <<Amount, Spend>>,
       <<Impress, Impressions>>, <<Views, Impressions>>,
       <<Conv, Conversions>>, <<Sales, Conversions>> >>

CanonicalTargets == {Spend, Impressions, Conversions}

-----------------------------------------------------------------------------
(* Sequence helpers *)

Range(s) == {s[i] : i \in 1..Len(s)}

InSeq(x, s) == \E i \in 1..Len(s) : s[i] = x

Count(x, s) == Cardinality({i \in 1..Len(s) : s[i] = x})

\* position of the first occurrence of x in s (x must occur)
IndexOf(x, s) == CHOOSE i \in 1..Len(s) : s[i] = x /\ \A j \in 1..(i-1) : s[j] # x

IsUnique(s) == \A i, j \in 1..Len(s) : s[i] = s[j] => i = j

RECURSIVE SumSeq(_)
SumSeq(s) == IF s = <<>> THEN 0 ELSE Head(s) + SumSeq(Tail(s))

RECURSIVE Flatten(_)
Flatten(ss) == IF ss = <<>> THEN <<>> ELSE Head(ss) \o Flatten(Tail(ss))

\* the elements of s at the positions in K, in order
SelectIdx(s, K) ==
    LET F[i \in 0..Len(s)] ==
            IF i = 0 THEN <<>>
            ELSE IF i \in K THEN Append(F[i-1], s[i]) ELSE F[i-1]
    IN F[Len(s)]

\* s without repetitions, in order of first occurrence
Dedup(s) == SelectIdx(s, {i \in 1..Len(s) : \A j \in 1..(i-1) : s[j] # s[i]})

\* the elements of the set S of integers as an ascending sequence
RECURSIVE SortedSeq(_)
SortedSeq(S) ==
    IF S = {} THEN <<>>
    ELSE LET m == CHOOSE x \in S : \A y \in S : x <= y
         IN <<m>> \o SortedSeq(S \ {m})

-----------------------------------------------------------------------------
(* Tables *)

EmptyTable == [columns |-> <<>>, rows |-> <<>>]

\* the cells of the (only) column labelled name
Col(df, name) == [r \in 1..Len(df.rows) |-> df.rows[r][IndexOf(name, df.columns)]]

HasCol(df, name) == InSeq(name, df.columns)

\* df[name] = vals: overwrites every column labelled name, or appends one
SetColumn(df, name, vals) ==
    IF InSeq(name, df.columns)
    THEN [df EXCEPT !.rows =
             [r \in 1..Len(df.rows) |->
                 [c \in 1..Len(df.columns) |->
                     IF df.columns[c] = name THEN vals[r] ELSE df.rows[r][c]]]]
    ELSE [df EXCEPT !.columns = Append(df.columns, name),
                    !.rows = [r \in 1..Len(df.rows) |-> Append(df.rows[r], vals[r])]]

\* pd.concat(dataframes, ignore_index=True): outer join on the column labels,
\* labels in order of first appearance, cells of absent columns filled with NaN
ConcatColumns(dfs) == Dedup(Flatten([k \in 1..Len(dfs) |-> dfs[k].columns]))

\* variant of Reindexed that fills absent columns with 0 (a concat followed by
\* fillna(0)); C1 must tell it from the code
ReindexedZeroFill(df, cols) ==
    [r \in 1..Len(df.rows) |->
        [c \in 1..Len(cols) |->
            IF InSeq(cols[c], df.columns)
            THEN df.rows[r][IndexOf(cols[c], df.columns)]
            ELSE 0]]

Reindexed(df, cols) ==
    [r \in 1..Len(df.rows) |->
        [c \in 1..Len(cols) |->
            IF InSeq(cols[c], df.columns)
            THEN df.rows[r][IndexOf(cols[c], df.columns)]
            ELSE NaN]]

Concat(dfs) ==
    LET cols == ConcatColumns(dfs)
    IN [columns |-> cols,
        rows |-> Flatten([k \in 1..Len(dfs) |-> Reindexed(dfs[k], cols)])]

-----------------------------------------------------------------------------
(* Results of a call: a table, the absent result (None), or an exception *)

Ok(t) == [status |-> "ok", error |-> "", value |-> t]

NoneResult == [status |-> "none", error |-> "", value |-> EmptyTable]

Raised(e) == [status |-> "raised", error |-> e, value |-> EmptyTable]

NotCalled == [status |-> "notcalled", error |-> "", value |-> EmptyTable]

-----------------------------------------------------------------------------
(* Column normalization: metrics_calculator.py lines 18-34 *)

LowerChar(c) ==
    IF \E i \in 1..Len(Uppers) : Uppers[i] = c
    THEN Lowers[CHOOSE i \in 1..Len(Uppers) : Uppers[i] = c]
    ELSE c

\* str.lower()
Lower(name) == [i \in 1..Len(name) |-> LowerChar(name[i])]

\* str.strip(): drops leading and trailing whitespace
RECURSIVE Strip(_)
Strip(name) ==
    IF name = <<>> THEN name
    ELSE IF Head(name) \in Whitespace THEN Strip(Tail(name))
    ELSE IF name[Len(name)] \in Whitespace THEN Strip(SubSeq(name, 1, Len(name) - 1))
    ELSE name

\* df.columns.str.lower().str.strip()
LowerStrip(cols) == [i \in 1..Len(cols) |-> Strip(Lower(cols[i]))]

\* the Python test `old in col` on strings
Contains(old, col) ==
    \E i \in 0..(Len(col) - Len(old)) : SubSeq(col, i + 1, i + Len(old)) = old

\* df.rename(columns={col: new}, inplace=True): every label equal to col changes
RenameLabel(cols, col, new) ==
    [i \in 1..Len(cols) |-> IF cols[i] = col THEN new ELSE cols[i]]

\* variant of AliasInner that renames the first column containing the alias and
\* stops, without testing whether the canonical label exists; C7 must tell it
\* from the code
RECURSIVE AliasInnerFirstOnly(_, _, _, _, _)
AliasInnerFirstOnly(cols, snapshot, k, old, new) ==
    IF k > Len(snapshot) THEN cols
    ELSE IF Contains(old, snapshot[k])
         THEN RenameLabel(cols, snapshot[k], new)
         ELSE AliasInnerFirstOnly(cols, snapshot, k + 1, old, new)

\* the inner loop `for col in df.columns`: it iterates over the labels as they
\* were when the loop started (snapshot), and tests the labels as they are now
RECURSIVE AliasInner(_, _, _, _, _)
AliasInner(cols, snapshot, k, old, new) ==
    IF k > Len(snapshot) THEN cols
    ELSE IF Contains(old, snapshot[k]) /\ ~InSeq(new, cols)
         THEN AliasInner(RenameLabel(cols, snapshot[k], new), snapshot, k + 1, old, new)
         ELSE AliasInner(cols, snapshot, k + 1, old, new)

\* the outer loop `for old, new in column_mapping.items()`, from pair m on
RECURSIVE AliasFrom(_, _)
AliasFrom(cols, m) ==
    IF m > Len(column_mapping) THEN cols
    ELSE AliasFrom(AliasInner(cols, cols, 1, column_mapping[m][1], column_mapping[m][2]),
                   m + 1)

ResolveAliases(cols) == AliasFrom(cols, 1)

NormalizeColumns(cols) == ResolveAliases(LowerStrip(cols))

-----------------------------------------------------------------------------
(* KPI arithmetic *)

\* n / d rounded to the nearest integer, ties to the even one (numpy's round)
RoundHalfEven(n, d) ==
    LET q == n \div d
        r == n % d
    IN IF 2 * r < d THEN q
       ELSE IF 2 * r > d THEN q + 1
       ELSE IF q % 2 = 0 THEN q ELSE q + 1

\* variant of KpiValue that truncates to two decimals instead of rounding; C3
\* must tell it from the code
KpiValueTruncated(num, den, scale) ==
    IF num = NaN \/ den = NaN THEN NaN
    ELSE IF den = 0 THEN (IF num = 0 THEN NaN ELSE Inf)
    ELSE (num * scale * 100) \div den

\* (num / den * scale).round(2) on float cells, in hundredths:
\* NaN propagates, 0/0 is NaN, x/0 is Inf for x > 0
KpiValue(num, den, scale) ==
    IF num = NaN \/ den = NaN THEN NaN
    ELSE IF den = 0 THEN (IF num = 0 THEN NaN ELSE Inf)
    ELSE RoundHalfEven(num * scale * 100, den)

\* .replace([np.inf, -np.inf], np.nan)
ReplaceInf(v) == IF v = Inf THEN NaN ELSE v

\* the per-row KPI expressions of calculate_marketing_metrics
RowCtr(clicks, impressions) == KpiValue(clicks, impressions, 100)

RowCpc(spend, clicks) == ReplaceInf(KpiValue(spend, clicks, 1))

RowCpm(spend, impressions) == KpiValue(spend, impressions, 1000)

RowCpa(spend, conversions) == ReplaceInf(KpiValue(spend, conversions, 1))

RowConversionRate(conversions, clicks) == ReplaceInf(KpiValue(conversions, clicks, 100))

RowRoas(revenue, spend) == ReplaceInf(KpiValue(revenue, spend, 1))

\* the KPI expressions of get_platform_summary, on the summed columns (no
\* replacement of inf)
SummaryCtr(clicks, impressions) == KpiValue(clicks, impressions, 100)

SummaryCpc(spend, clicks) == KpiValue(spend, clicks, 1)

SummaryCpm(spend, impressions) == KpiValue(spend, impressions, 1000)

SummaryCpa(spend, conversions) == KpiValue(spend, conversions, 1)

SummaryConversionRate(conversions, clicks) == KpiValue(conversions, clicks, 100)

\* the expression assigned to the column kpi, on one row (level "row") or on one
\* summary row (level "summary"), from the cells x and y of the columns a and b
KpiCell(level, kpi, x, y) ==
    CASE level = "row" /\ kpi = Ctr -> RowCtr(x, y)
      [] level = "row" /\ kpi = Cpc -> RowCpc(x, y)
      [] level = "row" /\ kpi = Cpm -> RowCpm(x, y)
      [] level = "row" /\ kpi = Cpa -> RowCpa(x, y)
      [] level = "row" /\ kpi = ConversionRate -> RowConversionRate(x, y)
      [] level = "row" /\ kpi = Roas -> RowRoas(x, y)
      [] level = "summary" /\ kpi = Ctr -> SummaryCtr(x, y)
      [] level = "summary" /\ kpi = Cpc -> SummaryCpc(x, y)
      [] level = "summary" /\ kpi = Cpm -> SummaryCpm(x, y)
      [] level = "summary" /\ kpi = Cpa -> SummaryCpa(x, y)
      [] level = "summary" /\ kpi = ConversionRate -> SummaryConversionRate(x, y)

\* one `if a in df.columns and b in df.columns: df[kpi] = f(df[a], df[b])` block.
\* When a or b labels several columns, df[a] is a frame and the arithmetic with
\* the other operand raises ValueError (duplicate labels cannot be aligned).
AddKpi(res, level, kpi, a, b) ==
    IF res.status # "ok" THEN res
    ELSE LET t == res.value
         IN IF HasCol(t, a) /\ HasCol(t, b)
            THEN IF Count(a, t.columns) > 1 \/ Count(b, t.columns) > 1
                 THEN Raised("ValueError")
                 ELSE Ok(SetColumn(t, kpi,
                           [r \in 1..Len(t.rows) |-> KpiCell(level, kpi, Col(t, a)[r], Col(t, b)[r])]))
            ELSE res

calculate_marketing_metrics(df) ==
    LET t0 == [columns |-> NormalizeColumns(df.columns), rows |-> df.rows]
        r1 == AddKpi(Ok(t0), "row", Ctr, Clicks, Impressions)
        r2 == AddKpi(r1, "row", Cpc, Spend, Clicks)
        r3 == AddKpi(r2, "row", Cpm, Spend, Impressions)
        r4 == AddKpi(r3, "row", Cpa, Spend, Conversions)
        r5 == AddKpi(r4, "row", ConversionRate, Conversions, Clicks)
    IN AddKpi(r5, "row", Roas, Revenue, Spend)

-----------------------------------------------------------------------------
(* Platform summary: metrics_calculator.py get_platform_summary *)

\* sum() skips missing cells
NanToZero(v) == IF v = NaN THEN 0 ELSE v

\* Series.sum() of the cells of the column at position c over the rows in R
SumCells(df, c, R) ==
    SumSeq(SelectIdx([r \in 1..Len(df.rows) |-> NanToZero(df.rows[r][c])], R))

\* the positions of the columns labelled name
Positions(df, name) ==
    SelectIdx([c \in 1..Len(df.columns) |-> c],
              {c \in 1..Len(df.columns) : df.columns[c] = name})

\* variant of the row selection that also takes the rows whose cell is missing
\* (a grouping that does not drop missing keys); C21 must tell it from the code
RowsWhereOrMissing(df, name, key) ==
    {r \in 1..Len(df.rows) : Col(df, name)[r] \in {key, NaN}}

\* the rows of df whose cell in column name equals key: df[df[name] == key]
\* (NaN equals nothing, itself included)
RowsWhere(df, name, key) ==
    IF key = NaN THEN {}
    ELSE {r \in 1..Len(df.rows) : Col(df, name)[r] = key}

VolumeCols == <<Impressions, Clicks, Spend, Conversions>>

\* df.groupby('platform')[sum_cols].sum(): one row per non-missing key, keys
\* ascending; the frame carries the keys as its index
GroupSum(df) ==
    LET sum_cols == SelectIdx(VolumeCols,
                              {i \in 1..Len(VolumeCols) : HasCol(df, VolumeCols[i])})
        sel == Flatten([k \in 1..Len(sum_cols) |-> Positions(df, sum_cols[k])])
        keys == SortedSeq(Range(Col(df, Platform)) \ {NaN})
    IN [index |-> keys,
        columns |-> [c \in 1..Len(sel) |-> df.columns[sel[c]]],
        rows |-> [g \in 1..Len(keys) |->
                     [c \in 1..Len(sel) |->
                         SumCells(df, sel[c], RowsWhere(df, Platform, keys[g]))]]]

\* the mean of the cells that are numbers, NaN when there is none
MeanOfCells(cells) ==
    LET nums == SelectIdx(cells, {i \in 1..Len(cells) : IsNum(cells[i])})
    IN IF nums = <<>> THEN NaN ELSE RoundHalfEven(SumSeq(nums), Len(nums))

\* variant of get_platform_summary whose KPI columns are the per-platform means
\* of the row-level KPI columns (groupby().mean()); C6 must tell it from the code
get_platform_summary_Averaged(df) ==
    IF ~HasCol(df, Platform) THEN NoneResult
    ELSE IF Count(Platform, df.columns) > 1 THEN Raised("ValueError")
    ELSE LET g == GroupSum(df)
             all == <<Ctr, Cpc, Cpm, Cpa, ConversionRate>>
             kpis == SelectIdx(all, {i \in 1..Len(all) : HasCol(df, all[i])})
             Means(kpi) ==
                 [i \in 1..Len(g.index) |->
                     MeanOfCells(SelectIdx(Col(df, kpi),
                                           RowsWhere(df, Platform, g.index[i])))]
             F[n \in 0..Len(kpis)] ==
                 IF n = 0 THEN g ELSE SetColumn(F[n - 1], kpis[n], Means(kpis[n]))
         IN Ok(F[Len(kpis)])

get_platform_summary(df) ==
    IF ~HasCol(df, Platform) THEN NoneResult
    ELSE IF Count(Platform, df.columns) > 1 THEN Raised("ValueError")
    ELSE LET r1 == AddKpi(Ok(GroupSum(df)), "summary", Ctr, Clicks, Impressions)
             r2 == AddKpi(r1, "summary", Cpc, Spend, Clicks)
             r3 == AddKpi(r2, "summary", Cpm, Spend, Impressions)
             r4 == AddKpi(r3, "summary", Cpa, Spend, Conversions)
         IN AddKpi(r4, "summary", ConversionRate, Conversions, Clicks)

-----------------------------------------------------------------------------
(* Insights: metrics_calculator.py get_performance_insights *)

\* order of float cells: Inf is above every number
Above(v, w) == IF v = Inf THEN w # Inf ELSE (w # Inf /\ v > w)

\* Series.sum() / total * 100 printed with one decimal, in tenths; 0/0 is NaN
PctOfTotal(part, total) ==
    IF total = 0 THEN NaN ELSE RoundHalfEven(part * 1000, total)

\* idxmax() / idxmin(): position of the first extremal cell among the cells
\* that are not NaN; 0 when every cell is NaN
IdxMax(cells) ==
    LET D == {i \in 1..Len(cells) : cells[i] # NaN}
    IN IF D = {} THEN 0
       ELSE CHOOSE i \in D : /\ \A j \in D : ~Above(cells[j], cells[i])
                             /\ \A j \in D : j < i => Above(cells[i], cells[j])

\* variant of idxmin that picks the last of several minimal cells; C17 must tell
\* it from the code
IdxMinLast(cells) ==
    LET D == {i \in 1..Len(cells) : cells[i] # NaN}
    IN IF D = {} THEN 0
       ELSE CHOOSE i \in D : /\ \A j \in D : ~Above(cells[i], cells[j])
                             /\ \A j \in D : j > i => Above(cells[j], cells[i])

IdxMin(cells) ==
    LET D == {i \in 1..Len(cells) : cells[i] # NaN}
    IN IF D = {} THEN 0
       ELSE CHOOSE i \in D : /\ \A j \in D : ~Above(cells[i], cells[j])
                             /\ \A j \in D : j < i => Above(cells[j], cells[i])

\* one `if kpi in summary_df.columns:` block.  When every cell is NaN, idxmax
\* yields NaN (or raises), and .loc[NaN, kpi] raises KeyError.
AddFinding(res, s, kind, kpi, extremum) ==
    IF res.status # "ok" \/ ~HasCol(s, kpi) THEN res
    ELSE LET i == IF extremum = "max" THEN IdxMax(Col(s, kpi)) ELSE IdxMin(Col(s, kpi))
         IN IF i = 0 THEN Raised("KeyError")
            ELSE Ok(Append(res.value,
                       [kind |-> kind, platform |-> s.index[i], value |-> Col(s, kpi)[i]]))

\* the block `if 'spend' in summary_df.columns:`: one line per platform
SpendShare(s) ==
    LET spend == Col(s, Spend)
        total_spend == SumSeq(spend)
    IN [i \in 1..Len(s.index) |->
           [kind |-> "spend_share", platform |-> s.index[i],
            value |-> PctOfTotal(spend[i], total_spend)]]

AddSpendShare(res, s) ==
    IF res.status # "ok" \/ ~HasCol(s, Spend) THEN res
    ELSE IF Count(Spend, s.columns) > 1 THEN Raised("TypeError")
    ELSE Ok(res.value \o SpendShare(s))

\* summary_res is the result of get_platform_summary: the absent result or a frame
get_performance_insights(summary_res) ==
    IF summary_res.status = "none" THEN Ok(<<>>)
    ELSE LET s == summary_res.value
         IN IF Len(s.rows) = 0 THEN Ok(<<>>)
            ELSE LET f1 == AddFinding(Ok(<<>>), s, "best_ctr", Ctr, "max")
                     f2 == AddFinding(f1, s, "lowest_cpc", Cpc, "min")
                     f3 == AddFinding(f2, s, "best_conversion_rate", ConversionRate, "max")
                     f4 == AddFinding(f3, s, "lowest_cpa", Cpa, "min")
                 IN AddSpendShare(f4, s)

-----------------------------------------------------------------------------
(* Comparison: statistics_analyzer.py compare_platforms *)

\* (num / den * scale) if den > 0 else 0, printed with two decimals, in hundredths
GuardedKpi(num, den, scale) ==
    IF den > 0 THEN RoundHalfEven(num * scale * 100, den) ELSE 0

\* df[name].sum() over all rows
ColumnTotal(df, name) == SumCells(df, IndexOf(name, df.columns), 1..Len(df.rows))

\* df[df['platform'] == platform][name].sum()
PlatformTotal(df, platform, name) ==
    SumCells(df, IndexOf(name, df.columns), RowsWhere(df, Platform, platform))

\* the row appended to `comparison` for one platform
ComparisonRow(df, platform) ==
    LET total_impressions == PlatformTotal(df, platform, Impressions)
        total_clicks == PlatformTotal(df, platform, Clicks)
        total_spend == PlatformTotal(df, platform, Spend)
        total_conversions == PlatformTotal(df, platform, Conversions)
    IN [Platform |-> platform,
        TotalSpend |-> total_spend,
        Impressions |-> total_impressions,
        CTR |-> GuardedKpi(total_clicks, total_impressions, 100),
        CPC |-> GuardedKpi(total_spend, total_clicks, 1),
        CPA |-> GuardedKpi(total_spend, total_conversions, 1),
        Conversions |-> total_conversions]

\* the printed budget allocation line for one platform
BudgetLine(df, platform) ==
    LET total_budget == ColumnTotal(df, Spend)
        platform_spend == PlatformTotal(df, platform, Spend)
    IN [platform |-> platform, spend |-> platform_spend,
        percentage |-> PctOfTotal(platform_spend, total_budget)]

\* df['platform'].unique(): the keys in order of first appearance, NaN included
UniquePlatforms(df) == Dedup(Col(df, Platform))

compare_platforms(df) ==
    IF ~HasCol(df, Platform) THEN Raised("KeyError")
    ELSE IF Count(Platform, df.columns) > 1 THEN Raised("AttributeError")
    ELSE LET platforms == UniquePlatforms(df)
             looped == Len(platforms) > 0
         IN IF looped /\ \E i \in 1..Len(VolumeCols) : ~HasCol(df, VolumeCols[i])
            THEN Raised("KeyError")
            ELSE IF looped /\ \E i \in 1..Len(VolumeCols) : Count(VolumeCols[i], df.columns) > 1
            THEN Raised("ValueError")
            ELSE IF ~HasCol(df, Spend) THEN Raised("KeyError")
            ELSE Ok([rows |-> [i \in 1..Len(platforms) |-> ComparisonRow(df, platforms[i])],
                     budget |-> [i \in 1..Len(platforms) |-> BudgetLine(df, platforms[i])]])

-----------------------------------------------------------------------------
(* Statistics: statistics_analyzer.py analyze_platform_statistics            *)

\* an unrounded float as a fraction of hundredths (5.00 is 500/1); den = 0 marks
\* nan (num 0) and inf (num 1)
Frac(n, d) == [num |-> n, den |-> d]
FracNaN == Frac(0, 0)
FracInf == Frac(1, 0)

\* a cell (hundredths, NaN or Inf) as an unrounded float
CellFrac(v) == IF v = NaN THEN FracNaN ELSE IF v = Inf THEN FracInf ELSE Frac(v, 1)

\* (num / den * scale) if den > 0 else 0, kept unrounded
GuardedRatio(num, den, scale) ==
    IF den > 0 THEN Frac(num * scale * 100, den) ELSE Frac(0, 1)

\* the cells that are not NaN: what the skipna reductions work on
DropNaN(cells) == SelectIdx(cells, {i \in 1..Len(cells) : cells[i] # NaN})

\* the cells in ascending order, Inf last
SortCells(cells) ==
    LET Insert(sorted, x) ==
            LET k == Cardinality({i \in 1..Len(sorted) : ~Above(sorted[i], x)})
            IN SubSeq(sorted, 1, k) \o <<x>> \o SubSeq(sorted, k + 1, Len(sorted))
        F[n \in 0..Len(cells)] == IF n = 0 THEN <<>> ELSE Insert(F[n - 1], cells[n])
    IN F[Len(cells)]

\* Series.mean()
SeriesMean(cells) ==
    LET vals == DropNaN(cells)
    IN IF vals = <<>> THEN FracNaN
       ELSE IF InSeq(Inf, vals) THEN FracInf
       ELSE Frac(SumSeq(vals), Len(vals))

\* Series.median()
SeriesMedian(cells) ==
    LET vals == SortCells(DropNaN(cells))
        n == Len(vals)
        lo == vals[(n + 1) \div 2]
        hi == vals[(n \div 2) + 1]
    IN IF n = 0 THEN FracNaN
       ELSE IF hi = Inf THEN FracInf
       ELSE Frac(lo + hi, 2)

\* Series.std() (ddof = 1), carried as its square: (n*sum(x^2) - sum(x)^2) / (n*(n-1));
\* nan with fewer than two values and when a value is inf (inf - inf)
SeriesStd(cells) ==
    LET vals == DropNaN(cells)
        n == Len(vals)
        squares == [i \in 1..n |-> vals[i] * vals[i]]
    IN IF n < 2 \/ InSeq(Inf, vals) THEN FracNaN
       ELSE Frac(n * SumSeq(squares) - SumSeq(vals) * SumSeq(vals), n * (n - 1))

\* Series.min()
SeriesMin(cells) ==
    LET vals == SortCells(DropNaN(cells))
    IN IF vals = <<>> THEN FracNaN ELSE CellFrac(vals[1])

\* Series.max()
SeriesMax(cells) ==
    LET vals == SortCells(DropNaN(cells))
    IN IF vals = <<>> THEN FracNaN ELSE CellFrac(vals[Len(vals)])

\* the five statistics computed (and printed) for one KPI column of a platform
CampaignStats(cells) ==
    [mean |-> SeriesMean(cells), median |-> SeriesMedian(cells),
     std |-> SeriesStd(cells), min |-> SeriesMin(cells), max |-> SeriesMax(cells)]

\* the cells of column name in the rows of the platform: platform_data[name]
PlatformCells(df, platform, name) ==
    SelectIdx(Col(df, name), RowsWhere(df, Platform, platform))

\* variant of the campaign count that counts the rows of the platform (n_days);
\* C18 must tell it from the code
CampaignCountRows(df, platform) == Len(PlatformCells(df, platform, Campaign))

\* len(platform_data['campaign'].unique()): a missing campaign is one value
CampaignCount(df, platform) == Cardinality(Range(PlatformCells(df, platform, Campaign)))

\* the platforms the loop visits: sorted(df['platform'].unique())
SortedPlatforms(df) == SortedSeq(Range(Col(df, Platform)))

\* the exception the loop body raises for one platform, "" when it raises none
PlatformError(df, platform) ==
    LET several == HasCol(df, Campaign) /\ Count(Campaign, df.columns) = 1
                      /\ CampaignCount(df, platform) > 1
        AllNaN(name) == DropNaN(PlatformCells(df, platform, name)) = <<>>
    IN IF platform = NaN THEN "AttributeError"
       ELSE IF ~HasCol(df, Campaign) THEN "KeyError"
       ELSE IF Count(Campaign, df.columns) > 1 THEN "AttributeError"
       ELSE IF \E i \in 1..Len(VolumeCols) : ~HasCol(df, VolumeCols[i]) THEN "KeyError"
       ELSE IF \E i \in 1..Len(VolumeCols) : Count(VolumeCols[i], df.columns) > 1
            THEN "ValueError"
       ELSE IF ~several THEN ""
       ELSE IF ~HasCol(df, Ctr) \/ ~HasCol(df, Cpc) THEN "KeyError"
       ELSE IF \E k \in {Ctr, Cpc, ConversionRate, Cpa} : Count(k, df.columns) > 1
            THEN "TypeError"
       ELSE IF AllNaN(Ctr) \/ AllNaN(Cpc) THEN "KeyError"
       ELSE IF HasCol(df, ConversionRate) /\ AllNaN(ConversionRate) THEN "KeyError"
       ELSE ""

\* stats_summary[platform], lines 157-172
PlatformRecord(df, platform) ==
    LET total_impressions == PlatformTotal(df, platform, Impressions)
        total_clicks == PlatformTotal(df, platform, Clicks)
        total_spend == PlatformTotal(df, platform, Spend)
        total_conversions == PlatformTotal(df, platform, Conversions)
        base == [n_campaigns |-> CampaignCount(df, platform),
                 aggregate_ctr |-> GuardedRatio(total_clicks, total_impressions, 100),
                 aggregate_cpc |-> GuardedRatio(total_spend, total_clicks, 1),
                 aggregate_conversion_rate |-> GuardedRatio(total_conversions, total_clicks, 100),
                 aggregate_cpa |-> GuardedRatio(total_spend, total_conversions, 1),
                 total_spend |-> total_spend]
        ctr == PlatformCells(df, platform, Ctr)
        cpc == PlatformCells(df, platform, Cpc)
    IN IF base.n_campaigns > 1
       THEN base @@ [campaign_ctr_mean |-> SeriesMean(ctr),
                     campaign_ctr_std |-> SeriesStd(ctr),
                     campaign_cpc_mean |-> SeriesMean(cpc),
                     campaign_cpc_std |-> SeriesStd(cpc)]
       ELSE base

\* the campaign-level lines printed for one platform (lines 76-131): for each
\* KPI the five statistics, <<>> when the block is skipped
PlatformPrinted(df, platform) ==
    LET Block(name) ==
            IF CampaignCount(df, platform) > 1 /\ HasCol(df, name)
            THEN <<CampaignStats(PlatformCells(df, platform, name))>>
            ELSE <<>>
    IN [ctr |-> Block(Ctr), cpc |-> Block(Cpc),
        conversion_rate |-> Block(ConversionRate), cpa |-> Block(Cpa)]

\* df.empty: no row or no column
IsEmptyFrame(df) == Len(df.rows) = 0 \/ Len(df.columns) = 0

\* the returned dict as a sequence of key/value entries in insertion order, with
\* the campaign-level lines printed for each key.  Platform names are strings:
\* sorted() of names and a missing value (a float) raises TypeError.
analyze_platform_statistics(df) ==
    IF IsEmptyFrame(df) THEN Ok([stats |-> <<>>, printed |-> <<>>])
    ELSE IF ~HasCol(df, Platform) THEN Raised("KeyError")
    ELSE IF Count(Platform, df.columns) > 1 THEN Raised("AttributeError")
    ELSE LET platforms == SortedPlatforms(df)
             failing == {i \in 1..Len(platforms) : PlatformError(df, platforms[i]) # ""}
         IN IF Len(platforms) > 1 /\ InSeq(NaN, platforms) THEN Raised("TypeError")
            ELSE IF failing # {}
            THEN Raised(PlatformError(df, platforms[CHOOSE i \in failing :
                                                        \A j \in failing : i <= j]))
            ELSE Ok([stats |-> [i \in 1..Len(platforms) |->
                                   [key |-> platforms[i],
                                    value |-> PlatformRecord(df, platforms[i])]],
                     printed |-> [i \in 1..Len(platforms) |->
                                     PlatformPrinted(df, platforms[i])]])

-----------------------------------------------------------------------------
(* The pipeline: consolidate the uploaded tables and derive the KPIs         *)
(* (consolidator.py consolidate_reports, app.py lines 77-89), then the       *)
(* platform overview (app.py lines 109-117) and the comparison.              *)

\* variant of consolidate_reports without the test for an empty file list:
\* pd.concat([]) raises ValueError; C9 must tell it from the code
consolidate_reports_NoGuard(files) ==
    IF Len(files) = 0 THEN Raised("ValueError") ELSE Ok(Concat(files))

\* consolidate_reports lines 11-28: None without files, else the concatenation
consolidate_reports(files) ==
    IF Len(files) = 0 THEN NoneResult ELSE Ok(Concat(files))

NoNorm ==
    /\ header = <<>>
    /\ columns = <<>>
    /\ firstPass = <<>>
    /\ passes = 0

InitPipeline(files) ==
    /\ pc = "start"
    /\ uploaded = files
    /\ consolidated = NotCalled
    /\ metrics = NotCalled
    /\ summary = NotCalled
    /\ insights = NotCalled
    /\ statistics = NotCalled
    /\ comparison = NotCalled
    /\ NoNorm

\* consolidate_reports: the concatenation, then calculate_marketing_metrics on it
ConsolidateReports ==
    /\ pc = "start"
    /\ consolidated' = consolidate_reports(uploaded)
    /\ metrics' = IF consolidated'.status = "ok"
                  THEN calculate_marketing_metrics(consolidated'.value)
                  ELSE NotCalled
    /\ pc' = IF consolidated'.status = "none" THEN "nodata"
             ELSE IF metrics'.status = "ok" THEN "metrics" ELSE "failed"
    /\ UNCHANGED <<uploaded, summary, insights, statistics, comparison, normVars>>

\* the overview: the platform summary and, when there is one, its insights
PlatformOverview ==
    /\ pc = "metrics"
    /\ summary' = get_platform_summary(metrics.value)
    /\ insights' = IF summary'.status = "ok"
                   THEN get_performance_insights(summary')
                   ELSE NotCalled
    /\ pc' = "summarized"
    /\ UNCHANGED <<uploaded, consolidated, metrics, statistics, comparison, normVars>>

\* analyze_platform_statistics on the metrics table (app.py line 151,
\* export_statistics_report line 261); a caller may also go straight to
\* compare_platforms
AnalyzeStatistics ==
    /\ pc = "summarized"
    /\ statistics = NotCalled
    /\ statistics' = analyze_platform_statistics(metrics.value)
    /\ UNCHANGED <<pc, uploaded, consolidated, metrics, summary, insights, comparison,
                   normVars>>

\* compare_platforms on the metrics table
ComparePlatforms ==
    /\ pc = "summarized"
    /\ comparison' = compare_platforms(metrics.value)
    /\ pc' = "compared"
    /\ UNCHANGED <<uploaded, consolidated, metrics, summary, insights, statistics,
                   normVars>>

Next ==
    \/ ConsolidateReports
    \/ PlatformOverview
    \/ AnalyzeStatistics
    \/ ComparePlatforms

\* get_performance_insights called with the absent result of get_platform_summary
\* (the `summary_df is None` branch, line 112)
InsightsOfNoSummary ==
    /\ pc = "summarized"
    /\ summary.status = "none"
    /\ insights = NotCalled
    /\ insights' = get_performance_insights(summary)
    /\ UNCHANGED <<pc, uploaded, consolidated, metrics, summary, statistics, comparison,
                   normVars>>

NextStat ==
    \/ Next
    \/ InsightsOfNoSummary

-----------------------------------------------------------------------------
(* Input tables.  A base row gives the cells of one observation; a table    *)
(* with header h holds, under each label, the cell of the field the label   *)
(* stands for.                                                              *)

UpperClicks   == <<"C","l","i","c","k","s">>
UpperCost     == <<"C","o","s","t">>
UpperPlatform == <<"P","l","a","t","f","o","r","m">>

BaseRow(p, c, i, k, s, v, r) ==
    [platform |-> p, campaign |-> c, impressions |-> i, clicks |-> k,
     spend |-> s, conversions |-> v, revenue |-> r]

CellFor(label, base) ==
    CASE label \in {Platform, UpperPlatform} -> base.platform
      [] label = Campaign -> base.campaign
      [] label = Impressions -> base.impressions
      [] label \in {Clicks, UpperClicks} -> base.clicks
      [] label \in {Spend, Cost, UpperCost} -> base.spend
      [] label = Conversions -> base.conversions
      [] label = Revenue -> base.revenue
      [] label = Ctr -> base.revenue    \* a ctr column supplied by the file

MakeTable(h, bases) ==
    [columns |-> h,
     rows |-> [r \in 1..Len(bases) |-> [c \in 1..Len(h) |-> CellFor(h[c], bases[r])]]]

SeqsUpTo(S, n) == UNION {[1..k -> S] : k \in 0..n}

\* the subsequences of s
SubHeaders(s) == {SelectIdx(s, K) : K \in SUBSET (1..Len(s))}

-----------------------------------------------------------------------------
(* Specification SpecKpi: one uploaded table, every combination of source   *)
(* columns, rows with zero and missing cells.                               *)

\* the most rows of the table
MaxKpiRows == 2

KpiHeaders ==
    SubHeaders(<<Impressions, Clicks, Spend, Conversions, Revenue>>)
        \cup {<<UpperClicks, Clicks, Impressions>>,
              <<Cost, Clicks>>,
              <<UpperCost, Cost, Clicks>>,
              <<Platform, Clicks, Impressions>>,
              <<Ctr, UpperCost, Clicks, Impressions>>,
              <<Ctr, Clicks>>}

KpiRows ==
    {BaseRow(1, 1, 1000, 50, 100, 5, 300),
     BaseRow(1, 1, 0, 5, 10, 0, 0),
     BaseRow(1, 2, 8, 0, 0, 1, 7),
     BaseRow(2, 1, 3, 2, 1, NaN, 2),
     BaseRow(2, 1, 16, 8, 1, 3, 5),
     BaseRow(2, 2, 0, 0, 0, 0, 0)}

InitKpi ==
    \E h \in KpiHeaders, bases \in SeqsUpTo(KpiRows, MaxKpiRows) :
        InitPipeline(<<MakeTable(h, bases)>>)

SpecKpi == InitKpi /\ [][Next]_vars

-----------------------------------------------------------------------------
(* Specification SpecAgg: one uploaded table with a platform column, rows   *)
(* of several platforms, a missing platform, and zero totals.               *)

\* the most rows of the table
MaxAggRows == 3

AggHeaders ==
    {<<Platform, Campaign, Impressions, Clicks, Spend, Conversions>>,
     <<Platform, Impressions, Clicks, Spend>>,
     <<Platform, Clicks, Spend, Conversions>>,
     <<Platform, Impressions, Clicks, Conversions>>}

AggRows ==
    {BaseRow(1, 1, 1000, 100, 50, 5, 0),
     BaseRow(1, 2, 9000, 90, 30, 0, 0),
     BaseRow(2, 1, 0, 0, 50, 0, 0),
     BaseRow(2, 1, 8, 1, 0, NaN, 0),
     BaseRow(3, 1, 16, 8, 1, 3, 0),
     BaseRow(NaN, 1, 10, 1, 20, 1, 0)}

InitAgg ==
    \E h \in AggHeaders, bases \in SeqsUpTo(AggRows, MaxAggRows) :
        InitPipeline(<<MakeTable(h, bases)>>)

SpecAgg == InitAgg /\ [][Next]_vars

-----------------------------------------------------------------------------
(* Specification SpecStat: one uploaded table for the statistics, the       *)
(* insights and the comparison: with and without the platform and campaign *)
(* columns, platforms with one and with several campaigns, zero totals.     *)

\* the most rows of the table
MaxStatRows == 3

StatHeaders ==
    {<<Platform, Campaign, Impressions, Clicks, Spend, Conversions>>,
     <<Platform, Impressions, Clicks, Spend, Conversions>>,
     <<Campaign, Impressions, Clicks, Spend, Conversions>>,
     <<Platform, Campaign, Impressions, Clicks, Spend>>,
     <<Platform, UpperPlatform, Impressions, Clicks, Spend>>}

StatRows ==
    {BaseRow(1, 1, 100, 5, 10, 1, 0),
     BaseRow(2, 2, 100, 8, 10, 1, 0),
     BaseRow(2, 1, 0, 4, 10, 0, 0),
     BaseRow(3, 1, 0, 0, 0, 0, 0),
     BaseRow(3, NaN, 8, 1, 0, 1, 0),
     BaseRow(NaN, 1, 10, 1, 20, 1, 0)}

InitStat ==
    \E h \in StatHeaders, bases \in SeqsUpTo(StatRows, MaxStatRows) :
        InitPipeline(<<MakeTable(h, bases)>>)

SpecStat == InitStat /\ [][NextStat]_vars

-----------------------------------------------------------------------------
(* Specification Spec: up to MaxFiles uploaded files with differing headers *)

\* the most files uploaded
MaxFiles == 3

FilePool ==
    {MakeTable(<<Platform, Impressions, Clicks, Spend, Conversions>>,
               <<BaseRow(1, 1, 1000, 50, 100, 5, 0), BaseRow(2, 1, 0, 0, 50, 0, 0)>>),
     MakeTable(<<Platform, Campaign, Impressions, Clicks, Spend, Conversions>>,
               <<BaseRow(2, 1, 8, 1, 0, 1, 0), BaseRow(1, 2, 16, 8, 1, 3, 0)>>),
     MakeTable(<<Impressions, Clicks, Cost, Conversions>>,
               <<BaseRow(0, 0, 10, 1, 20, 1, 0)>>),
     MakeTable(<<Spend, Platform, Revenue, Clicks, Impressions, Conversions>>,
               <<BaseRow(3, 0, 3, 2, 0, 1, 4), BaseRow(3, 0, 3, 2, 0, 1, 4)>>),
     MakeTable(<<UpperClicks, Impressions>>,
               <<BaseRow(0, 0, 3, 2, 0, 0, 0)>>),
     MakeTable(<<Platform, Clicks>>, <<>>)}

Init == \E files \in SeqsUpTo(FilePool, MaxFiles) : InitPipeline(files)

Spec == Init /\ [][Next]_vars

-----------------------------------------------------------------------------
(* Properties of the consolidation (checked under Spec) *)

\* the number of output rows that precede the rows of file k
RowOffset(files, k) == SumSeq([j \in 1..(k - 1) |-> Len(files[j].rows)])

\* C1: consolidating a non-empty list of tables is plain concatenation: the row
\* count is the sum of the input row counts, the rows of each input are contiguous
\* and in order with inputs in list order, the output columns are the union of the
\* input columns, and a cell of a column its input lacks is NaN (not zero).
C1_ConsolidationIsConcatenation ==
    (pc # "start" /\ Len(uploaded) > 0) =>
        /\ consolidated.status = "ok"
        /\ LET out == consolidated.value
           IN /\ Len(out.rows) = SumSeq([k \in 1..Len(uploaded) |-> Len(uploaded[k].rows)])
              /\ Range(out.columns) = UNION {Range(uploaded[k].columns) : k \in 1..Len(uploaded)}
              /\ IsUnique(out.columns)
              /\ \A k \in 1..Len(uploaded) :
                    \A r \in 1..Len(uploaded[k].rows) :
                       \A c \in 1..Len(out.columns) :
                          out.rows[RowOffset(uploaded, k) + r][c] =
                             IF InSeq(out.columns[c], uploaded[k].columns)
                             THEN uploaded[k].rows[r][IndexOf(out.columns[c], uploaded[k].columns)]
                             ELSE NaN

\* C1 witness: two files with different column sets were consolidated, the same
\* row occurs twice in the output, and a padded cell is NaN in a column where
\* another row holds 0.
C1_Witness ==
    /\ consolidated.status = "ok"
    /\ Len(uploaded) >= 2
    /\ \E j, k \in 1..Len(uploaded) :
          /\ Range(uploaded[j].columns) # Range(uploaded[k].columns)
          /\ Len(uploaded[j].rows) > 0 /\ Len(uploaded[k].rows) > 0
    /\ LET out == consolidated.value
       IN /\ \E r1, r2 \in 1..Len(out.rows) : r1 # r2 /\ out.rows[r1] = out.rows[r2]
          /\ \E c \in 1..Len(out.columns) :
                \E r1, r2 \in 1..Len(out.rows) : out.rows[r1][c] = NaN /\ out.rows[r2][c] = 0

\* C9 as claimed: consolidation of zero tables fails with EmptyInputError.
C9_EmptyInputRaises ==
    (pc # "start" /\ Len(uploaded) = 0) =>
        (consolidated.status = "raised" /\ consolidated.error = "EmptyInputError")

\* C9 as amended: consolidation of zero tables raises nothing and returns the
\* absent result (None); no metrics are computed.
C9_EmptyInputReturnsNone ==
    (pc # "start" /\ Len(uploaded) = 0) =>
        (consolidated = NoneResult /\ metrics = NotCalled /\ pc = "nodata")

\* C9 witness: consolidation ran on zero tables.
C9_Witness == pc = "nodata" /\ uploaded = <<>> /\ consolidated.status = "none"

-----------------------------------------------------------------------------
(* Properties of the KPI derivation (checked under SpecKpi) *)

KpiDefs ==
    {[name |-> Ctr, num |-> Clicks, den |-> Impressions, scale |-> 100],
     [name |-> Cpc, num |-> Spend, den |-> Clicks, scale |-> 1],
     [name |-> Cpm, num |-> Spend, den |-> Impressions, scale |-> 1000],
     [name |-> Cpa, num |-> Spend, den |-> Conversions, scale |-> 1],
     [name |-> ConversionRate, num |-> Conversions, den |-> Clicks, scale |-> 100],
     [name |-> Roas, num |-> Revenue, den |-> Spend, scale |-> 1]}

\* the labels of the consolidated table after normalization
NormalizedLabels == NormalizeColumns(consolidated.value.columns)

\* both source columns of the KPI k are among the labels
SourcesIn(labels, k) == InSeq(k.num, labels) /\ InSeq(k.den, labels)

\* the input cell of row r under the column whose normalized label is name
CellIn(labels, r, name) == consolidated.value.rows[r][IndexOf(name, labels)]

\* v (in hundredths) is a nearest two-decimal value of num / den
NearestHundredth(v, num, den) ==
    LET diff == v * den - num * 100
    IN IsNum(v) /\ 2 * (IF diff < 0 THEN -diff ELSE diff) <= den

\* C2: each KPI column is added exactly when both of its source columns are in
\* the normalized table, and the call does not raise.
C2_KpiIffSourcesPresent ==
    (pc # "start" /\ consolidated.status = "ok") =>
        /\ metrics.status = "ok"
        /\ \A k \in KpiDefs :
              HasCol(metrics.value, k.name) <=> SourcesIn(NormalizedLabels, k)

\* C3: in every row with a non-zero denominator (and a numerator that is a
\* number) each KPI is its formula rounded to two decimals; the row
\* {impressions 1000, clicks 50, spend 100, conversions 5} yields ctr 5.00,
\* cpc 2.00, cpm 100.00, cpa 20.00, conversion_rate 10.00.
C3_KpiFormulas ==
    metrics.status = "ok" =>
        LET labels == NormalizedLabels
            out == metrics.value
        IN \A r \in 1..Len(out.rows) :
            /\ \A k \in KpiDefs :
                  (/\ SourcesIn(labels, k)
                   /\ IsNum(CellIn(labels, r, k.num))
                   /\ CellIn(labels, r, k.den) > 0) =>
                      NearestHundredth(Col(out, k.name)[r],
                                       CellIn(labels, r, k.num) * k.scale,
                                       CellIn(labels, r, k.den))
            /\ (/\ \A n \in {Impressions, Clicks, Spend, Conversions} : InSeq(n, labels)
                /\ CellIn(labels, r, Impressions) = 1000 /\ CellIn(labels, r, Clicks) = 50
                /\ CellIn(labels, r, Spend) = 100 /\ CellIn(labels, r, Conversions) = 5) =>
                   /\ Col(out, Ctr)[r] = 500
                   /\ Col(out, Cpc)[r] = 200
                   /\ Col(out, Cpm)[r] = 10000
                   /\ Col(out, Cpa)[r] = 2000
                   /\ Col(out, ConversionRate)[r] = 1000

\* C3 witness: the metrics of a table with all source columns that holds the
\* example row and a row whose cpa needs rounding (1/3).
C3_Witness ==
    /\ metrics.status = "ok"
    /\ LET labels == NormalizedLabels
           out == metrics.value
       IN /\ \A k \in KpiDefs : SourcesIn(labels, k)
          /\ \E r \in 1..Len(out.rows) :
                CellIn(labels, r, Impressions) = 1000 /\ Col(out, Ctr)[r] = 500
          /\ \E r \in 1..Len(out.rows) :
                /\ CellIn(labels, r, Spend) = 1
                /\ CellIn(labels, r, Conversions) = 3
                /\ Col(out, Cpa)[r] = 33

\* C4: in every row whose denominator is zero the KPI is the missing marker
\* (not infinity, not zero), for each of the six KPIs.
C4_ZeroDenominatorUndefined ==
    metrics.status = "ok" =>
        LET labels == NormalizedLabels
            out == metrics.value
        IN \A r \in 1..Len(out.rows) :
              \A k \in KpiDefs :
                 (SourcesIn(labels, k) /\ CellIn(labels, r, k.den) = 0) =>
                     Col(out, k.name)[r] = NaN

KpiNames == {k.name : k \in KpiDefs}

\* the label of an input column after the call: lowercased and stripped, or
\* replaced by a canonical name
RenamedOnly(old, new) == new = Strip(Lower(old)) \/ new \in CanonicalTargets

\* C20: calculate_marketing_metrics leaves its input table unchanged;
\* its output has the rows of the input in the same order and, under the
\* (renamed) labels of the input, the values of every input column; the other
\* columns are KPI columns appended after them; a second call on the same input
\* returns the same output.
C20_InputColumnsKept ==
    metrics.status = "ok" =>
        LET in == consolidated.value
            out == metrics.value
        IN /\ in = uploaded[1]
           /\ Len(out.rows) = Len(in.rows)
           /\ Len(out.columns) >= Len(in.columns)
           /\ \A c \in 1..Len(in.columns) :
                 /\ RenamedOnly(in.columns[c], out.columns[c])
                 /\ \A r \in 1..Len(in.rows) : out.rows[r][c] = in.rows[r][c]
           /\ \A c \in (Len(in.columns) + 1)..Len(out.columns) : out.columns[c] \in KpiNames
           /\ calculate_marketing_metrics(in) = metrics

-----------------------------------------------------------------------------
(* Properties of the platform summary (checked under SpecAgg) *)

SummaryKpiDefs == {k \in KpiDefs : k.name # Roas}

\* the sum over the rows in R of the cells of column name, missing cells as 0
RECURSIVE SumRows(_, _, _)
SumRows(df, name, R) ==
    IF R = {} THEN 0
    ELSE LET r == CHOOSE x \in R : TRUE
         IN NanToZero(Col(df, name)[r]) + SumRows(df, name, R \ {r})

PlatformKeys(df) == Range(Col(df, Platform)) \ {NaN}

\* C5: a KPI of the summary whose summed denominator is zero is the missing
\* marker, as at row level.
C5_SummaryZeroDenominatorUndefined ==
    summary.status = "ok" =>
        \A g \in 1..Len(summary.value.rows) :
            \A k \in SummaryKpiDefs :
                (HasCol(summary.value, k.name) /\ Col(summary.value, k.den)[g] = 0) =>
                    Col(summary.value, k.name)[g] = NaN

\* C6: the summary has exactly one row per distinct platform value, its volume
\* columns are the sums over the rows of the platform, and its KPIs are computed
\* from those sums: rows {impressions 1000, clicks 100} and {impressions 9000,
\* clicks 90} give ctr 1.9, not 5.5.
C6_SummaryVolumeWeighted ==
    summary.status = "ok" =>
        LET s == summary.value
            df == metrics.value
        IN /\ IsUnique(s.index)
           /\ Range(s.index) = PlatformKeys(df)
           /\ Len(s.rows) = Len(s.index)
           /\ \A g \in 1..Len(s.index) :
                 /\ \A i \in 1..Len(VolumeCols) :
                       HasCol(df, VolumeCols[i]) =>
                           /\ HasCol(s, VolumeCols[i])
                           /\ Col(s, VolumeCols[i])[g] =
                                 SumRows(df, VolumeCols[i],
                                         {r \in 1..Len(df.rows) : Col(df, Platform)[r] = s.index[g]})
                 /\ \A k \in SummaryKpiDefs :
                       (HasCol(df, k.num) /\ HasCol(df, k.den)) =>
                           /\ HasCol(s, k.name)
                           /\ Col(s, k.den)[g] > 0 =>
                                 NearestHundredth(Col(s, k.name)[g],
                                                  Col(s, k.num)[g] * k.scale, Col(s, k.den)[g])
                 /\ (/\ HasCol(s, Ctr)
                     /\ Col(s, Impressions)[g] = 10000
                     /\ Col(s, Clicks)[g] = 190) => Col(s, Ctr)[g] = 190

\* C6 witness: a summary of a table in which one platform has the two example
\* rows (row ctr 10.00 and 1.00) and another platform has rows too.
C6_Witness ==
    /\ summary.status = "ok"
    /\ Len(summary.value.index) >= 2
    /\ HasCol(summary.value, Ctr)
    /\ \E g \in 1..Len(summary.value.index) :
          /\ Col(summary.value, Impressions)[g] = 10000
          /\ Col(summary.value, Clicks)[g] = 190
          /\ Col(summary.value, Ctr)[g] = 190
    /\ \E r1, r2 \in 1..Len(metrics.value.rows) :
          /\ Col(metrics.value, Platform)[r1] = Col(metrics.value, Platform)[r2]
          /\ Col(metrics.value, Ctr)[r1] = 1000
          /\ Col(metrics.value, Ctr)[r2] = 100

\* the rows of the metrics table that have a platform
RowsWithPlatform ==
    {r \in 1..Len(metrics.value.rows) : Col(metrics.value, Platform)[r] # NaN}

\* C21: for each volume column of the table, the sum of the column over the rows
\* of the summary equals its sum over the table rows that have a platform,
\* missing cells counted as 0; every row with a platform belongs to exactly one
\* summary row and a row without platform to none.
C21_VolumeConservation ==
    summary.status = "ok" =>
        LET s == summary.value
            df == metrics.value
        IN /\ \A i \in 1..Len(VolumeCols) :
                 HasCol(df, VolumeCols[i]) =>
                     /\ HasCol(s, VolumeCols[i])
                     /\ SumSeq(Col(s, VolumeCols[i])) = SumRows(df, VolumeCols[i], RowsWithPlatform)
           /\ \A r \in 1..Len(df.rows) :
                 Cardinality({g \in 1..Len(s.index) : s.index[g] = Col(df, Platform)[r]})
                     = IF r \in RowsWithPlatform THEN 1 ELSE 0

\* C21 witness: the summary of a table with rows of two platforms, a row without
\* platform that has spend, and a missing conversions cell.
C21_Witness ==
    /\ summary.status = "ok"
    /\ Len(summary.value.index) = 2
    /\ HasCol(metrics.value, Conversions)
    /\ HasCol(metrics.value, Spend)
    /\ \E r \in 1..Len(metrics.value.rows) :
          r \notin RowsWithPlatform /\ Col(metrics.value, Spend)[r] > 0
    /\ \E r \in RowsWithPlatform : Col(metrics.value, Conversions)[r] = NaN
    /\ SumSeq(Col(summary.value, Spend)) < SumRows(metrics.value, Spend, 1..Len(metrics.value.rows))

\* the spend-share lines of the insights, as platform/percentage pairs
InsightShares ==
    {<<insights.value[i].platform, insights.value[i].value>> :
        i \in {j \in 1..Len(insights.value) : insights.value[j].kind = "spend_share"}}

\* the budget allocation lines of the comparison, as platform/percentage pairs
BudgetShares ==
    {<<comparison.value.budget[i].platform, comparison.value.budget[i].percentage>> :
        i \in 1..Len(comparison.value.budget)}

\* C10: for a metrics table with a platform and a spend column, the spend
\* percentages printed by compare_platforms equal, platform by platform, the
\* spend shares of the insights of the platform summary.
C10_SpendSharesAgree ==
    (pc = "compared" /\ HasCol(metrics.value, Platform) /\ HasCol(metrics.value, Spend)) =>
        /\ comparison.status = "ok"
        /\ insights.status = "ok"
        /\ BudgetShares = InsightShares

-----------------------------------------------------------------------------
(* Properties of the insights (checked under SpecStat) *)

\* the findings of the given kind, in the order of the list
FindingsOf(kind) ==
    SelectIdx(insights.value,
              {i \in 1..Len(insights.value) : insights.value[i].kind = kind})

\* the percentages of the spend-share lines, in tenths, in the order of the list
SharePercentages == [i \in 1..Len(FindingsOf("spend_share")) |->
                        FindingsOf("spend_share")[i].value]

\* the summary is a table with at least one row
SummaryNonEmpty == summary.status = "ok" /\ Len(summary.value.rows) > 0

\* C11: for a non-empty summary with a spend column the insights carry one
\* spend-share line per platform, in summary order, whose percentages are numbers
\* that sum to 100 within rounding (half a tenth per line), also when the total
\* spend is 0.
C11_SpendSharesSumTo100 ==
    (SummaryNonEmpty /\ HasCol(summary.value, Spend) /\ insights.status = "ok") =>
        LET lines == FindingsOf("spend_share")
            total == SumSeq(SharePercentages)
        IN /\ [i \in 1..Len(lines) |-> lines[i].platform] = summary.value.index
           /\ \A i \in 1..Len(lines) : IsNum(lines[i].value)
           /\ 2 * (IF total < 1000 THEN 1000 - total ELSE total - 1000) <= Len(lines)

-----------------------------------------------------------------------------
(* Properties of the statistics and the comparison (checked under SpecStat) *)

\* the metrics table has rows and lacks the platform column, the campaign
\* column or one of the volume columns
LacksGroupingOrVolume ==
    /\ metrics.status = "ok"
    /\ ~IsEmptyFrame(metrics.value)
    /\ \/ ~HasCol(metrics.value, Platform)
       \/ ~HasCol(metrics.value, Campaign)
       \/ \E i \in 1..Len(VolumeCols) : ~HasCol(metrics.value, VolumeCols[i])

DistributionalFields ==
    {"campaign_ctr_mean", "campaign_ctr_std", "campaign_cpc_mean", "campaign_cpc_std"}

\* C12: on a non-empty metrics table without the platform column, the campaign
\* column or a volume column, analyze_platform_statistics and compare_platforms
\* raise nothing; without platform the analyzer's result is empty, and without
\* campaign it holds one aggregate record per platform, none with the
\* distributional fields.
C12_MissingColumnsRaiseNothing ==
    LacksGroupingOrVolume =>
        /\ statistics.status # "raised"
        /\ comparison.status # "raised"
        /\ (statistics.status = "ok" /\ ~HasCol(metrics.value, Platform)) =>
              statistics.value.stats = <<>>
        /\ (statistics.status = "ok" /\ HasCol(metrics.value, Platform)
               /\ ~HasCol(metrics.value, Campaign)) =>
              /\ {statistics.value.stats[i].key : i \in 1..Len(statistics.value.stats)}
                    = Range(Col(metrics.value, Platform))
              /\ \A i \in 1..Len(statistics.value.stats) :
                    DOMAIN statistics.value.stats[i].value \cap DistributionalFields = {}

\* C13: get_platform_summary returns the absent result without raising when the
\* table has no platform column and a summary table when it has one;
\* get_performance_insights of an absent or zero-row summary is the empty list.
C13_AbsentSummaryAndEmptyInsights ==
    summary.status # "notcalled" =>
        /\ ~HasCol(metrics.value, Platform) => summary = NoneResult
        /\ HasCol(metrics.value, Platform) => summary.status = "ok"
        /\ (insights.status # "notcalled" /\ ~SummaryNonEmpty) => insights = Ok(<<>>)

\* the unrounded value f, rounded to two decimals, is the summary cell v
\* (nan and inf only agree with themselves)
AgreesWithCell(f, v) ==
    IF v = NaN THEN f = FracNaN
    ELSE IF v = Inf THEN f = FracInf
    ELSE LET diff == v * f.den - f.num
         IN f.den > 0 /\ 2 * (IF diff < 0 THEN -diff ELSE diff) <= f.den

\* the position of the platform in the index of the summary
SummaryRowOf(platform) == IndexOf(platform, summary.value.index)

\* C14: for every platform and each of ctr, cpc, conversion_rate and cpa the
\* aggregate of analyze_platform_statistics, and for ctr, cpc and cpa the
\* aggregate of compare_platforms, agrees with the value of get_platform_summary,
\* also when the summed denominator is zero.
C14_AggregatesAgreeWithSummary ==
    /\ (statistics.status = "ok" /\ summary.status = "ok") =>
          \A i \in 1..Len(statistics.value.stats) :
             LET rec == statistics.value.stats[i].value
                 g == SummaryRowOf(statistics.value.stats[i].key)
                 s == summary.value
             IN /\ HasCol(s, Ctr) => AgreesWithCell(rec.aggregate_ctr, Col(s, Ctr)[g])
                /\ HasCol(s, Cpc) => AgreesWithCell(rec.aggregate_cpc, Col(s, Cpc)[g])
                /\ HasCol(s, ConversionRate) =>
                      AgreesWithCell(rec.aggregate_conversion_rate, Col(s, ConversionRate)[g])
                /\ HasCol(s, Cpa) => AgreesWithCell(rec.aggregate_cpa, Col(s, Cpa)[g])
    /\ (comparison.status = "ok" /\ summary.status = "ok") =>
          \A i \in 1..Len(comparison.value.rows) :
             LET row == comparison.value.rows[i]
                 g == SummaryRowOf(row.Platform)
                 s == summary.value
             IN row.Platform # NaN =>
                   /\ HasCol(s, Ctr) => row.CTR = Col(s, Ctr)[g]
                   /\ HasCol(s, Cpc) => row.CPC = Col(s, Cpc)[g]
                   /\ HasCol(s, Cpa) => row.CPA = Col(s, Cpa)[g]

\* the cells with every undefined value (NaN, Inf) taken out
DefinedOnly(cells) == SelectIdx(cells, {i \in 1..Len(cells) : IsNum(cells[i])})

StatKpis == {"ctr", "cpc", "conversion_rate", "cpa"}

KpiLabel(k) ==
    CASE k = "ctr" -> Ctr
      [] k = "cpc" -> Cpc
      [] k = "conversion_rate" -> ConversionRate
      [] k = "cpa" -> Cpa

\* C15: the mean, median, standard deviation, min and max that
\* analyze_platform_statistics computes for ctr, cpc, conversion_rate and cpa of a
\* platform are those of the defined row values only: none is infinite, and an
\* undefined row counts neither as a value nor as 0.
C15_UndefinedRowsExcluded ==
    statistics.status = "ok" =>
        \A i \in 1..Len(statistics.value.stats) :
           LET platform == statistics.value.stats[i].key
               rec == statistics.value.stats[i].value
               Defined(k) == DefinedOnly(PlatformCells(metrics.value, platform, KpiLabel(k)))
           IN /\ \A k \in StatKpis :
                    statistics.value.printed[i][k] # <<>> =>
                        /\ statistics.value.printed[i][k][1] = CampaignStats(Defined(k))
                        /\ \A f \in {"mean", "median", "std", "min", "max"} :
                              statistics.value.printed[i][k][1][f] # FracInf
              /\ "campaign_ctr_mean" \in DOMAIN rec =>
                    /\ rec.campaign_ctr_mean = SeriesMean(Defined("ctr"))
                    /\ rec.campaign_ctr_std = SeriesStd(Defined("ctr"))
                    /\ rec.campaign_cpc_mean = SeriesMean(Defined("cpc"))
                    /\ rec.campaign_cpc_std = SeriesStd(Defined("cpc"))

\* the kinds of findings the summary s calls for, in the order of the list
ExpectedKinds(s) ==
    (IF HasCol(s, Ctr) THEN <<"best_ctr">> ELSE <<>>)
        \o (IF HasCol(s, Cpc) THEN <<"lowest_cpc">> ELSE <<>>)
        \o (IF HasCol(s, ConversionRate) THEN <<"best_conversion_rate">> ELSE <<>>)
        \o (IF HasCol(s, Cpa) THEN <<"lowest_cpa">> ELSE <<>>)
        \o (IF HasCol(s, Spend) THEN [i \in 1..Len(s.index) |-> "spend_share"] ELSE <<>>)

\* C16: for a non-empty summary get_performance_insights raises nothing and
\* returns best-CTR, lowest-CPC, best-conversion-rate, lowest-CPA, then one
\* spend-share line per platform in summary order, each finding present exactly
\* when its column is in the summary.
C16_FindingsOrderAndPresence ==
    SummaryNonEmpty =>
        /\ insights.status = "ok"
        /\ [i \in 1..Len(insights.value) |-> insights.value[i].kind]
              = ExpectedKinds(summary.value)
        /\ [i \in 1..Len(FindingsOf("spend_share")) |-> FindingsOf("spend_share")[i].platform]
              = (IF HasCol(summary.value, Spend) THEN summary.value.index ELSE <<>>)

\* the extremal findings: kind, column and direction
ExtremalFindings ==
    {[kind |-> "best_ctr", kpi |-> Ctr, best |-> "max"],
     [kind |-> "lowest_cpc", kpi |-> Cpc, best |-> "min"],
     [kind |-> "best_conversion_rate", kpi |-> ConversionRate, best |-> "max"],
     [kind |-> "lowest_cpa", kpi |-> Cpa, best |-> "min"]}

\* C17: each extremal finding names a platform whose value in the respective
\* summary column is the largest (ctr, conversion_rate) or the smallest (cpc,
\* cpa) of the column, and no earlier platform of the summary has that value;
\* for the summary {1: ctr 5.00, 2: ctr 8.00} the best-CTR finding names 2.
C17_ExtremalFindingNamesFirstBest ==
    (SummaryNonEmpty /\ insights.status = "ok") =>
        LET s == summary.value
        IN /\ \A e \in ExtremalFindings :
                 \A n \in 1..Len(FindingsOf(e.kind)) :
                    LET f == FindingsOf(e.kind)[n]
                        cells == Col(s, e.kpi)
                        i == IndexOf(f.platform, s.index)
                    IN /\ InSeq(f.platform, s.index)
                       /\ f.value = cells[i]
                       /\ cells[i] # NaN
                       /\ \A j \in 1..Len(cells) :
                             cells[j] # NaN =>
                                 IF e.best = "max" THEN ~Above(cells[j], cells[i])
                                 ELSE ~Above(cells[i], cells[j])
                       /\ \A j \in 1..(i - 1) : cells[j] # cells[i]
           /\ (s.index = <<1, 2>> /\ HasCol(s, Ctr) /\ Col(s, Ctr) = <<500, 800>>) =>
                 FindingsOf("best_ctr") = <<[kind |-> "best_ctr", platform |-> 2, value |-> 800]>>

\* C17 witness: the insights of the summary {1: ctr 5.00, 2: ctr 8.00}, in which
\* both platforms have cpa 10.00: best CTR names 2, lowest CPA names 1.
C17_Witness ==
    /\ SummaryNonEmpty
    /\ insights.status = "ok"
    /\ summary.value.index = <<1, 2>>
    /\ HasCol(summary.value, Ctr) /\ Col(summary.value, Ctr) = <<500, 800>>
    /\ HasCol(summary.value, Cpa) /\ Col(summary.value, Cpa) = <<1000, 1000>>
    /\ FindingsOf("best_ctr")[1].platform = 2
    /\ FindingsOf("lowest_cpa")[1].platform = 1

\* the rows of the metrics table whose platform cell is p (the rows without a
\* platform when p is the missing marker)
RowsOfPlatform(p) ==
    {r \in 1..Len(metrics.value.rows) : Col(metrics.value, Platform)[r] = p}

\* the distinct campaign cells of the rows in R
CampaignsIn(R) == {Col(metrics.value, Campaign)[r] : r \in R}

MetricsSum(name, R) == SumRows(metrics.value, name, R)

\* C19: compare_platforms returns exactly one row per distinct platform value of
\* the table, in the order in which the values first occur (not sorted), and each
\* row carries the total spend, total impressions and total conversions of the
\* rows with that value, the conversions as an integer, and the CTR, CPC and CPA
\* computed from the totals.
C19_ComparisonRowsFirstSeen ==
    comparison.status = "ok" =>
        LET rows == comparison.value.rows
            platforms == [i \in 1..Len(rows) |-> rows[i].Platform]
            cells == Col(metrics.value, Platform)
        IN /\ IsUnique(platforms)
           /\ Range(platforms) = Range(cells)
           /\ \A i, j \in 1..Len(rows) :
                 i < j => IndexOf(platforms[i], cells) < IndexOf(platforms[j], cells)
           /\ \A i \in 1..Len(rows) :
                 LET R == RowsOfPlatform(platforms[i])
                     spend == MetricsSum(Spend, R)
                     impressions == MetricsSum(Impressions, R)
                     clicks == MetricsSum(Clicks, R)
                     conversions == MetricsSum(Conversions, R)
                 IN /\ rows[i].TotalSpend = spend
                    /\ rows[i].Impressions = impressions
                    /\ rows[i].Conversions = conversions
                    /\ rows[i].Conversions \in Nat
                    /\ impressions > 0 => NearestHundredth(rows[i].CTR, clicks * 100, impressions)
                    /\ clicks > 0 => NearestHundredth(rows[i].CPC, spend, clicks)
                    /\ conversions > 0 => NearestHundredth(rows[i].CPA, spend, conversions)

-----------------------------------------------------------------------------
(* Specification SpecNorm: the normalization step applied to a header, and  *)
(* applied again to its own result.                                        *)

\* the longest header drawn
MaxCols == 3
\* how many times the normalization is applied
MaxPasses == 2

PadSpend   == <<" ","S","p","e","n","d">>
Reviews    == <<"r","e","v","i","e","w","s">>
CostConv   == <<"c","o","s","t","_","c","o","n","v">>
UpperViews == <<"V","i","e","w","s">>

\* raw labels: canonical names, synonyms, case and padding variants, a label
\* with two alias fragments, and a label with a fragment that is no synonym
NamePool ==
    {Cost, UpperCost, Amount, Spend, PadSpend, Views, UpperViews, Reviews,
     Impressions, Conv, Sales, CostConv, Clicks}

\* the headers a frame read from files can carry: raw labels are distinct
UniqueSeqs(S, n) == {s \in UNION {[1..k -> S] : k \in 0..n} : IsUnique(s)}

NoPipeline ==
    /\ pc = "norm"
    /\ uploaded = <<>>
    /\ consolidated = NotCalled
    /\ metrics = NotCalled
    /\ summary = NotCalled
    /\ insights = NotCalled
    /\ statistics = NotCalled
    /\ comparison = NotCalled

InitNorm ==
    /\ NoPipeline
    /\ header \in UniqueSeqs(NamePool, MaxCols)
    /\ columns = header
    /\ firstPass = <<>>
    /\ passes = 0

\* lines 18-34 of calculate_marketing_metrics, on the labels of the frame
Normalize ==
    /\ passes < MaxPasses
    /\ columns' = NormalizeColumns(columns)
    /\ firstPass' = IF passes = 0 THEN NormalizeColumns(columns) ELSE firstPass
    /\ passes' = passes + 1
    /\ UNCHANGED <<header, pipelineVars>>

NextNorm == Normalize

SpecNorm == InitNorm /\ [][NextNorm]_vars

\* the labels after lower() and strip(), before the alias loop
Stripped == LowerStrip(header)

ContainsAlias(col) == \E m \in 1..Len(column_mapping) : Contains(column_mapping[m][1], col)

\* C7: normalizing an already normalized header changes no label: after a second
\* pass the labels are those the first pass produced.
C7_NormalizeIdempotent == passes >= 2 => columns = firstPass

\* C7 witness: a second pass ran on a header in which the first pass renamed a
\* column and left another column that contains an alias fragment as it was.
C7_Witness ==
    /\ passes = 2
    /\ \E i \in 1..Len(header) : firstPass[i] # Stripped[i]
    /\ \E j \in 1..Len(header) : firstPass[j] = Stripped[j] /\ ContainsAlias(Stripped[j])
                                  /\ firstPass[j] \notin CanonicalTargets

\* C8: alias resolution renames a column to a canonical name only while that name
\* is absent: a canonical column of the input is never overwritten or duplicated,
\* at most one column is renamed to each canonical name, it is the first
\* qualifying one, other columns with the alias stay, and columns without any
\* alias pass through unchanged.
C8_AliasSafety ==
    passes >= 1 =>
        /\ \A t \in CanonicalTargets :
              InSeq(t, Stripped) =>
                  \A i \in 1..Len(header) : (firstPass[i] = t) <=> (Stripped[i] = t)
        /\ \A t \in CanonicalTargets :
              Cardinality({i \in 1..Len(header) : firstPass[i] = t /\ Stripped[i] # t}) <= 1
        /\ \A i \in 1..Len(header) :
              firstPass[i] # Stripped[i] =>
                  /\ firstPass[i] \in CanonicalTargets
                  /\ \E m \in 1..Len(column_mapping) :
                        /\ column_mapping[m][2] = firstPass[i]
                        /\ Contains(column_mapping[m][1], Stripped[i])
                        /\ \A j \in 1..(i - 1) :
                              Contains(column_mapping[m][1], Stripped[j])
                                  => firstPass[j] # Stripped[j]
        /\ \A i \in 1..Len(header) :
              ~ContainsAlias(Stripped[i]) => firstPass[i] = Stripped[i]

====
